---- MODULE Spec2Model ----
(***************************************************************************)
(* Model of the two generators of optml-sql.                               *)
(*                                                                         *)
(*   generate_sql (src/generate_schema.py) walks the elements of an XML    *)
(*   schema document and accumulates a list of SQL statements.  The walk   *)
(*   is modelled element by element: every action consumes the next        *)
(*   element of the document (a top-level command, or a child of the       *)
(*   <addTable> being read) and does to the program's variables what the   *)
(*   branch of the code handling that element does.                        *)
(*                                                                         *)
(*   pg_type_to_drizzle_type (src/generate_drizzle.py) is a pure function  *)
(*   of a type string; strings it inspects are sequences of characters.    *)
(*                                                                         *)
(*   generate_drizzle_schema (src/generate_drizzle.py) walks the same      *)
(*   document and accumulates table definitions.  The two generators are   *)
(*   run side by side on one document: a step hands the element read to    *)
(*   the branch of each generator that handles it.                         *)
(*                                                                         *)
(* An attribute of an element is an option: <<>> when the attribute is     *)
(* absent (attrib.get gives None), <<v>> when it is present with value v.  *)
(* A statement is a record: its SQL form (kind), the table and the object  *)
(* name it is about (each the pieces of the f-string that builds it), and  *)
(* its remaining interpolated parts (arg, a sequence of token sequences).  *)
(***************************************************************************)
EXTENDS Integers, Sequences, FiniteSets, TLC

VARIABLES
    pc,                 \* "start", "top" (between commands), "table" (in the child loop), "done"
    sql_statements,     \* the list sql_statements
    command,            \* the top-level element being (or last) handled
    children,           \* the children of `command` iterated so far
    table_name,         \* local table_name: <<>> for None, <<v>> for the string v
    is_history,         \* local is_history
    alter_ops,          \* local alter_ops
    foreign_keys,       \* local foreign_keys
    effective_columns,  \* local effective_columns (OrderedDict: sequence of [name, def])
    nread,              \* size of the part of the document read so far
    dz_columns,         \* generate_drizzle_schema: local columns
    dz_foreign_keys,    \* generate_drizzle_schema: local foreign_keys
    dz_table_definitions, \* generate_drizzle_schema: the list table_definitions
    tm_pc,              \* type mapper: "call" before, "return" after
    tm_in,              \* type mapper: the argument pg_type
    tm_out              \* type mapper: the returned value

vars == <<pc, sql_statements, command, children, table_name, is_history,
          alter_ops, foreign_keys, effective_columns, nread,
          dz_columns, dz_foreign_keys, dz_table_definitions, tm_pc, tm_in, tm_out>>

sqlvars == <<pc, sql_statements, command, children, table_name, is_history,
             alter_ops, foreign_keys, effective_columns, nread>>

tmvars == <<tm_pc, tm_in, tm_out>>

dzvars == <<dz_columns, dz_foreign_keys, dz_table_definitions>>

(***************************************************************************)
(* Bounds of the model.                                                    *)
(***************************************************************************)
\* the size of a document: the sum of the weights of its elements (Weight)
MaxWeight == 6

(***************************************************************************)
(* XML elements.                                                           *)
(***************************************************************************)
AttrNames ==
    {"name", "type", "primaryKey", "nullable", "default", "unique", "column",
     "refTable", "refColumn", "onDelete", "onUpdate", "columns", "update", "history"}

\* The attrib dictionary holding exactly the entries of record r.
Attrs(r) == [k \in AttrNames |-> IF k \in DOMAIN r THEN <<r[k]>> ELSE <<>>]

NoAttrs == [k \in AttrNames |-> <<>>]

Elem(tag, attrib) == [tag |-> tag, attrib |-> attrib]

\* attrib.get(k, d)
GetOr(e, k, d) == IF e.attrib[k] = <<>> THEN d ELSE e.attrib[k][1]

\* attrib.get(k) is not None
Has(e, k) == e.attrib[k] # <<>>

\* bool(attrib.get(k)): present and not the empty string
Truthy(e, k) == e.attrib[k] # <<>> /\ e.attrib[k][1] # ""

\* str.lower on the attribute values of the model
Lower(s) ==
    CASE s \in {"TRUE", "True"} -> "true"
      [] s \in {"YES", "Yes"} -> "yes"
      [] s \in {"FALSE", "False"} -> "false"
      [] s \in {"NO", "No"} -> "no"
      [] OTHER -> s

(***************************************************************************)
(* Statements.                                                             *)
(***************************************************************************)
Stmt(kind, table, name, arg) == [kind |-> kind, table |-> table, name |-> name, arg |-> arg]

BeginStmt == Stmt("BEGIN", <<>>, <<>>, <<>>)

CommitStmt == Stmt("COMMIT", <<>>, <<>>, <<>>)


(***************************************************************************)
(* generate_sql: the column definition and the OrderedDict.                *)
(***************************************************************************)
\* primaryKey of an addColumn: attrib.get('primaryKey', 'false').lower() == 'true'
PrimaryKeyFlag(e) == Lower(GetOr(e, "primaryKey", "false")) = "true"

\* nullable explicitly false: attrib.get('nullable', 'true').lower() == 'false'
NotNullFlag(e) == Lower(GetOr(e, "nullable", "true")) = "false"

\* unique of an addColumn: attrib.get('unique', 'false').lower() == 'true'
UniqueFlag(e) == Lower(GetOr(e, "unique", "false")) = "true"

\* update of an addIndex: attrib.get('update', 'false').lower() == 'true'
UpdateFlag(e) == Lower(GetOr(e, "update", "false")) = "true"

\* history of an addTable: attrib.get('history', '').lower() in ['true', 'yes', '1']
HistoryFlag(e) == Lower(GetOr(e, "history", "")) \in {"true", "yes", "1"}

\* col_def: the parts of col_def_parts, in order
ColDef(e) ==
    <<GetOr(e, "name", ""), GetOr(e, "type", "")>>
    \o (IF PrimaryKeyFlag(e) THEN <<"PRIMARY KEY">> ELSE <<>>)
    \o (IF NotNullFlag(e) THEN <<"NOT NULL">> ELSE <<>>)
    \o (IF Has(e, "default") THEN <<"DEFAULT", GetOr(e, "default", "")>> ELSE <<>>)

\* Keys of an OrderedDict, in order
Keys(od) == [i \in 1..Len(od) |-> od[i].name]

\* Values of an OrderedDict, in order
Values(od) == [i \in 1..Len(od) |-> od[i].def]

HasKey(od, k) == \E i \in 1..Len(od) : od[i].name = k

\* del od[k]
ODDel(od, k) == SelectSeq(od, LAMBDA x : x.name # k)

\* What ODSet must not be: assigning to an existing key moves it to the end
ODSetMoveToEnd(od, k, v) == Append(ODDel(od, k), [name |-> k, def |-> v])

\* od[k] = v: an existing key keeps its place, a new key goes last
ODSet(od, k, v) ==
    IF HasKey(od, k)
    THEN [i \in 1..Len(od) |-> IF od[i].name = k THEN [name |-> k, def |-> v] ELSE od[i]]
    ELSE Append(od, [name |-> k, def |-> v])

(***************************************************************************)
(* generate_sql: the statements of each branch.                            *)
(***************************************************************************)
CreateExtensionStmt(n) == Stmt("CREATE EXTENSION IF NOT EXISTS", <<>>, <<n>>, <<>>)

AddColumnStmt(t, col_def) ==
    Stmt("ALTER TABLE ADD COLUMN IF NOT EXISTS", t, <<col_def[1]>>, <<col_def>>)

DropConstraintStmt(t, cname) == Stmt("ALTER TABLE DROP CONSTRAINT IF EXISTS", t, cname, <<>>)

UniqueStmt(t, cname, col) == Stmt("ALTER TABLE ADD CONSTRAINT UNIQUE", t, cname, <<<<col>>>>)

DropColumnStmt(t, col) == Stmt("ALTER TABLE DROP COLUMN IF EXISTS", t, <<col>>, <<>>)

\* fk_{table_name}_{fk_col}
FkName(t, col) == <<"fk_", t, "_", col>>

\* uk_{table_name}_{col_name}
UkName(t, col) == <<"uk_", t, "_", col>>

\* INDEX_{index_name}
IndexName(n) == <<"INDEX_", n>>

\* History_{table_name}
HistTable(t) == <<"History_", t>>

\* log_history_{table_name}
LogHistoryName(t) == <<"log_history_", t>>

ForeignKeyStmt(t, e) ==
    Stmt("ALTER TABLE ADD CONSTRAINT FOREIGN KEY", <<t>>, FkName(t, GetOr(e, "column", "")),
         << <<GetOr(e, "column", "")>>,
            <<GetOr(e, "refTable", ""), GetOr(e, "refColumn", "")>>,
            (IF Truthy(e, "onDelete") THEN <<"ON DELETE", GetOr(e, "onDelete", "")>> ELSE <<>>)
            \o (IF Truthy(e, "onUpdate") THEN <<"ON UPDATE", GetOr(e, "onUpdate", "")>> ELSE <<>>) >>)

DropIndexStmt(n) == Stmt("DROP INDEX IF EXISTS", <<>>, IndexName(n), <<>>)

CreateIndexStmt(t, n, cols) == Stmt("CREATE INDEX", <<t>>, IndexName(n), <<<<cols>>>>)

CreateIndexIfNotExistsStmt(t, n, cols) ==
    Stmt("CREATE INDEX IF NOT EXISTS", <<t>>, IndexName(n), <<<<cols>>>>)

CreateTableStmt(t, od) == Stmt("CREATE TABLE IF NOT EXISTS", <<t>>, <<>>, Values(od))

DropTableStmt(t) == Stmt("DROP TABLE IF EXISTS", t, <<>>, <<>>)

(***************************************************************************)
(* generate_sql: the history section of an <addTable> (lines 144-208).     *)
(***************************************************************************)
HistLikeStmt(t) == Stmt("CREATE TABLE IF NOT EXISTS LIKE", HistTable(t), <<>>, <<<<t>>>>)

\* one ADD COLUMN on the history table per effective column
HistColumnStmts(t, od) == [i \in 1..Len(od) |-> AddColumnStmt(HistTable(t), od[i].def)]

\* "cleanup old constraints": the loop over the children tagged addColumn
HistPkeyCleanup(t, kids) ==
    LET hit == SelectSeq(kids, LAMBDA c : c.tag = "addColumn" /\ PrimaryKeyFlag(c))
    IN  [i \in 1..Len(hit) |-> DropConstraintStmt(HistTable(t), <<"History_", t, "_pkey">>)]

\* the loop over the children tagged addForeignKey
HistFkCleanup(t, kids) ==
    LET hit == SelectSeq(kids, LAMBDA c : c.tag = "addForeignKey" /\ Truthy(c, "column"))
    IN  [i \in 1..Len(hit) |->
            DropConstraintStmt(HistTable(t), FkName(t, GetOr(hit[i], "column", "")))]

\* historyid, its primary key, changed_at, operation
HistTrackingStmts(t) ==
    << Stmt("ALTER TABLE ADD COLUMN IF NOT EXISTS", HistTable(t), <<"historyid">>,
            <<<<"historyid", "SERIAL">>>>),
       DropConstraintStmt(HistTable(t), <<"History_", t, "_historyid_pkey">>),
       Stmt("ALTER TABLE ADD CONSTRAINT PRIMARY KEY", HistTable(t),
            <<"History_", t, "_historyid_pkey">>, <<<<"historyid">>>>),
       Stmt("ALTER TABLE ADD COLUMN IF NOT EXISTS", HistTable(t), <<"changed_at">>,
            <<<<"changed_at", "TIMESTAMP", "DEFAULT", "now()">>>>),
       Stmt("ALTER TABLE ADD COLUMN IF NOT EXISTS", HistTable(t), <<"operation">>,
            <<<<"operation", "TEXT">>>>) >>

\* arg: the columns the function copies, then the values of `operation` it writes
TriggerFunctionStmt(t, od) ==
    Stmt("CREATE OR REPLACE FUNCTION", HistTable(t), LogHistoryName(t),
         << Keys(od) \o <<"changed_at", "operation">>, <<"INSERT", "UPDATE", "DELETE">> >>)

DropTriggerStmt(t) == Stmt("DROP TRIGGER IF EXISTS", <<t>>, LogHistoryName(t), <<>>)

CreateTriggerStmt(t) ==
    Stmt("CREATE TRIGGER", <<t>>, LogHistoryName(t),
         <<<<"AFTER INSERT OR UPDATE OR DELETE", "FOR EACH ROW">>, LogHistoryName(t)>>)

\* What TriggerStmts must not be: the trigger is created without dropping the old one
TriggerStmtsNoDrop(t, od) ==
    IF od # <<>> THEN <<TriggerFunctionStmt(t, od), CreateTriggerStmt(t)>> ELSE <<>>

\* the trigger function and its binding, only when there are effective columns
TriggerStmts(t, od) ==
    IF od # <<>>
    THEN <<TriggerFunctionStmt(t, od), DropTriggerStmt(t), CreateTriggerStmt(t)>>
    ELSE <<>>

HistoryStmts(t, od, kids) ==
    <<HistLikeStmt(t)>> \o HistColumnStmts(t, od) \o HistPkeyCleanup(t, kids)
    \o HistFkCleanup(t, kids) \o HistTrackingStmts(t) \o TriggerStmts(t, od)

\* what the code appends after the child loop of an <addTable> (lines 133-208)
TableEmission(t, hist, od, alters, fks, kids) ==
    (IF od # <<>> THEN <<CreateTableStmt(t, od)>> ELSE <<>>)
    \o alters \o fks
    \o (IF hist THEN HistoryStmts(t, od, kids) ELSE <<>>)

(***************************************************************************)
(* The documents of the model: the elements an action may read next.       *)
(***************************************************************************)
TableNames == {"t"}

ColNames == {"a", "b"}

ExtensionElems ==
    { Elem("createExtension", Attrs([name |-> "pgcrypto"])),
      Elem("createExtension", NoAttrs) }

AddTableElems ==
    { Elem("addTable", Attrs([name |-> t])) : t \in TableNames }
    \cup { Elem("addTable", Attrs([name |-> t, history |-> h])) :
             t \in TableNames, h \in {"true", "YES", "1"} }
    \cup { Elem("addTable", Attrs([history |-> "true"])) }

RemoveTableElems ==
    { Elem("removeTable", Attrs([name |-> t])) : t \in TableNames }
    \cup { Elem("removeTable", NoAttrs) }

OtherCommandElems == { Elem("dropSchema", Attrs([name |-> "s"])) }

\* addColumn / removeColumn with only the required attributes
PlainChildElems ==
    { Elem("addColumn", Attrs([name |-> c, type |-> "INT"])) : c \in ColNames }
    \cup { Elem("removeColumn", Attrs([name |-> c])) : c \in ColNames }

AddColumnElems ==
    { Elem("addColumn", Attrs([name |-> c, type |-> "INT"])) : c \in ColNames }
    \cup { Elem("addColumn", Attrs([name |-> "a", type |-> "INT", primaryKey |-> v])) :
             v \in {"true", "TRUE", "yes", "1"} }
    \cup { Elem("addColumn", Attrs([name |-> "a", type |-> "INT", unique |-> v])) :
             v \in {"true", "yes"} }
    \cup { Elem("addColumn", Attrs([name |-> "a", type |-> "TEXT", nullable |-> "False"])),
           Elem("addColumn", Attrs([name |-> "a", type |-> "INT", default |-> "0"])),
           Elem("addColumn", Attrs([type |-> "INT", primaryKey |-> "true"])),
           Elem("addColumn", Attrs([name |-> "a", unique |-> "true"])),
           Elem("addColumn", Attrs([name |-> "", type |-> "INT"])) }

RemoveColumnElems ==
    { Elem("removeColumn", Attrs([name |-> c])) : c \in ColNames }
    \cup { Elem("removeColumn", NoAttrs) }

AddForeignKeyElems ==
    { Elem("addForeignKey", Attrs([column |-> "a", refTable |-> "u", refColumn |-> "id"])),
      Elem("addForeignKey", Attrs([column |-> "a", refTable |-> "u", refColumn |-> "id",
                                   onDelete |-> "CASCADE"])),
      Elem("addForeignKey", Attrs([column |-> "a", refTable |-> "u"])),
      Elem("addForeignKey", Attrs([refTable |-> "u", refColumn |-> "id"])) }

AddIndexElems ==
    { Elem("addIndex", Attrs([name |-> "i", columns |-> "a"])),
      Elem("addIndex", Attrs([name |-> "i", columns |-> "a", update |-> "True"])),
      Elem("addIndex", Attrs([name |-> "i", columns |-> "a", update |-> "yes"])),
      Elem("addIndex", Attrs([name |-> "i", update |-> "true"])) }

RemoveIndexElems ==
    { Elem("removeIndex", Attrs([name |-> "i"])), Elem("removeIndex", NoAttrs) }

OtherChildElems == { Elem("renameColumn", Attrs([name |-> "a"])) }

\* The size of an element: a child that is a plain addColumn / removeColumn
\* counts 1, every other element 2.
Weight(e) == IF e \in PlainChildElems THEN 1 ELSE 2

\* the next top-level element e can be read
CanReadCommand(e) == pc = "top" /\ nread + Weight(e) <= MaxWeight

\* child e can be read next in the loop over the children of `command`
CanReadChild(e) == pc = "table" /\ nread + Weight(e) <= MaxWeight

(***************************************************************************)
(* generate_sql, step by step.                                             *)
(***************************************************************************)
SqlInit ==
    /\ pc = "start"
    /\ sql_statements = <<>>
    /\ command = Elem("", NoAttrs)
    /\ children = <<>>
    /\ table_name = <<>>
    /\ is_history = FALSE
    /\ alter_ops = <<>>
    /\ foreign_keys = <<>>
    /\ effective_columns = <<>>
    /\ nread = 0

locals == <<table_name, is_history, alter_ops, foreign_keys, effective_columns>>

\* lines 12-15
Begin ==
    /\ pc = "start"
    /\ sql_statements' = Append(sql_statements, BeginStmt)
    /\ pc' = "top"
    /\ UNCHANGED <<command, children, nread, locals, tmvars>>

\* the top-level loop reads e
ReadCommand(e) ==
    /\ CanReadCommand(e)
    /\ command' = e
    /\ children' = <<>>
    /\ nread' = nread + Weight(e)

\* the child loop reads e
ReadChild(e) ==
    /\ CanReadChild(e)
    /\ children' = Append(children, e)
    /\ nread' = nread + Weight(e)
    /\ UNCHANGED <<pc, command, table_name, is_history>>

\* lines 18-24
CreateExtension ==
    \E e \in ExtensionElems :
        /\ ReadCommand(e)
        /\ sql_statements' =
              IF ~Truthy(e, "name") THEN sql_statements
              ELSE Append(sql_statements, CreateExtensionStmt(GetOr(e, "name", "")))
        /\ UNCHANGED <<pc, locals, tmvars>>

\* lines 26-38: the head of the addTable branch
AddTable ==
    \E e \in AddTableElems :
        /\ ReadCommand(e)
        /\ table_name' = e.attrib["name"]
        /\ IF ~Truthy(e, "name")
           THEN UNCHANGED <<pc, is_history, alter_ops, foreign_keys, effective_columns>>
           ELSE /\ is_history' = HistoryFlag(e)
                /\ alter_ops' = <<>>
                /\ foreign_keys' = <<>>
                /\ effective_columns' = <<>>
                /\ pc' = "table"
        /\ UNCHANGED <<sql_statements, tmvars>>

\* what an addColumn child appends to alter_ops (lines 61-73)
AddColumnOps(t, e) ==
    <<AddColumnStmt(<<t>>, ColDef(e))>>
    \o (IF UniqueFlag(e)
        THEN << DropConstraintStmt(<<t>>, UkName(t, GetOr(e, "name", ""))),
                UniqueStmt(<<t>>, UkName(t, GetOr(e, "name", "")), GetOr(e, "name", "")) >>
        ELSE <<>>)

\* lines 42-73
AddColumn ==
    \E e \in AddColumnElems :
        /\ ReadChild(e)
        /\ IF ~Truthy(e, "name") \/ ~Truthy(e, "type")
           THEN UNCHANGED <<effective_columns, alter_ops>>
           ELSE /\ effective_columns' = ODSet(effective_columns, GetOr(e, "name", ""), ColDef(e))
                /\ alter_ops' = alter_ops \o AddColumnOps(table_name[1], e)
        /\ UNCHANGED <<sql_statements, foreign_keys, tmvars>>

\* lines 75-82
RemoveColumn ==
    \E e \in RemoveColumnElems :
        /\ ReadChild(e)
        /\ IF ~Truthy(e, "name")
           THEN UNCHANGED <<effective_columns, alter_ops>>
           ELSE /\ effective_columns' = ODDel(effective_columns, GetOr(e, "name", ""))
                /\ alter_ops' = Append(alter_ops, DropColumnStmt(<<table_name[1]>>, GetOr(e, "name", "")))
        /\ UNCHANGED <<sql_statements, foreign_keys, tmvars>>

\* lines 84-103: the DROP goes to sql_statements, the ADD to foreign_keys
AddForeignKey ==
    \E e \in AddForeignKeyElems :
        /\ ReadChild(e)
        /\ IF ~Truthy(e, "column") \/ ~Truthy(e, "refTable") \/ ~Truthy(e, "refColumn")
           THEN UNCHANGED <<sql_statements, foreign_keys>>
           ELSE /\ sql_statements' =
                      Append(sql_statements,
                             DropConstraintStmt(<<table_name[1]>>,
                                                FkName(table_name[1], GetOr(e, "column", ""))))
                /\ foreign_keys' = Append(foreign_keys, ForeignKeyStmt(table_name[1], e))
        /\ UNCHANGED <<effective_columns, alter_ops, tmvars>>

\* what an addIndex child appends to alter_ops (lines 113-120)
AddIndexOps(t, e) ==
    IF UpdateFlag(e)
    THEN << DropIndexStmt(GetOr(e, "name", "")),
            CreateIndexStmt(t, GetOr(e, "name", ""), GetOr(e, "columns", "")) >>
    ELSE << CreateIndexIfNotExistsStmt(t, GetOr(e, "name", ""), GetOr(e, "columns", "")) >>

\* lines 106-120
AddIndex ==
    \E e \in AddIndexElems :
        /\ ReadChild(e)
        /\ alter_ops' =
              IF ~Truthy(e, "name") \/ ~Truthy(e, "columns") THEN alter_ops
              ELSE alter_ops \o AddIndexOps(table_name[1], e)
        /\ UNCHANGED <<sql_statements, foreign_keys, effective_columns, tmvars>>

\* lines 122-128
RemoveIndex ==
    \E e \in RemoveIndexElems :
        /\ ReadChild(e)
        /\ alter_ops' =
              IF ~Truthy(e, "name") THEN alter_ops
              ELSE Append(alter_ops, DropIndexStmt(GetOr(e, "name", "")))
        /\ UNCHANGED <<sql_statements, foreign_keys, effective_columns, tmvars>>

\* lines 130-131
UnrecognizedChild ==
    \E e \in OtherChildElems :
        /\ ReadChild(e)
        /\ UNCHANGED <<sql_statements, alter_ops, foreign_keys, effective_columns, tmvars>>

\* lines 133-208: the child loop is over
EndTable ==
    /\ pc = "table"
    /\ sql_statements' =
          sql_statements \o TableEmission(table_name[1], is_history, effective_columns,
                                          alter_ops, foreign_keys, children)
    /\ pc' = "top"
    /\ UNCHANGED <<command, children, nread, locals, tmvars>>

\* What RemoveTableStmts must not be: the drops run in a transaction of their own
RemoveTableOwnTransaction(t) ==
    <<CommitStmt, DropTableStmt(<<t>>), DropTableStmt(HistTable(t)), BeginStmt>>

\* what a removeTable command appends (lines 215-216)
RemoveTableStmts(t) == <<DropTableStmt(<<t>>), DropTableStmt(HistTable(t))>>

\* lines 210-216
RemoveTable ==
    \E e \in RemoveTableElems :
        /\ ReadCommand(e)
        /\ table_name' = e.attrib["name"]
        /\ sql_statements' =
              IF ~Truthy(e, "name") THEN sql_statements
              ELSE sql_statements \o RemoveTableStmts(GetOr(e, "name", ""))
        /\ UNCHANGED <<pc, is_history, alter_ops, foreign_keys, effective_columns, tmvars>>

\* lines 217-218
UnrecognizedCommand ==
    \E e \in OtherCommandElems :
        /\ ReadCommand(e)
        /\ UNCHANGED <<pc, sql_statements, locals, tmvars>>

\* lines 220-222: the document is over
Commit ==
    /\ pc = "top"
    /\ sql_statements' = Append(sql_statements, CommitStmt)
    /\ pc' = "done"
    /\ UNCHANGED <<command, children, nread, locals, tmvars>>


(***************************************************************************)
(* pg_type_to_drizzle_type (src/generate_drizzle.py).  A string is the     *)
(* sequence of its characters.                                             *)
(***************************************************************************)
LowerLetters ==
    <<"a", "b", "c", "d", "e", "f", "g", "h", "i", "j", "k", "l", "m",
      "n", "o", "p", "q", "r", "s", "t", "u", "v", "w", "x", "y", "z">>

UpperLetters ==
    <<"A", "B", "C", "D", "E", "F", "G", "H", "I", "J", "K", "L", "M",
      "N", "O", "P", "Q", "R", "S", "T", "U", "V", "W", "X", "Y", "Z">>

Digits == {"0", "1", "2", "3", "4", "5", "6", "7", "8", "9"}

\* the characters \w matches
WordChars ==
    {LowerLetters[i] : i \in 1..Len(LowerLetters)}
    \cup {UpperLetters[i] : i \in 1..Len(UpperLetters)} \cup Digits \cup {"_"}

\* the ASCII characters \s matches: blank, tab, line feed, carriage return,
\* form feed, and by name the vertical tab and the separators 0x1c-0x1f
SpaceChars == {" ", "\t", "\n", "\r", "\f", "VT", "FS", "GS", "RS", "US"}

UpperChar(c) ==
    IF \E i \in 1..Len(LowerLetters) : LowerLetters[i] = c
    THEN UpperLetters[CHOOSE i \in 1..Len(LowerLetters) : LowerLetters[i] = c]
    ELSE c

\* What Upper must not be: the string is used as given
UpperOmitted(s) == s

\* str.upper
Upper(s) == [i \in 1..Len(s) |-> UpperChar(s[i])]

\* s.startswith(p)
StartsWith(s, p) == Len(s) >= Len(p) /\ SubSeq(s, 1, Len(p)) = p

\* p in s
Contains(s, p) == \E i \in 0..(Len(s) - Len(p)) : SubSeq(s, i + 1, i + Len(p)) = p

\* the end of the longest run of characters of class that starts at i (i - 1: none)
RunEnd(s, i, class) ==
    CHOOSE j \in (i - 1)..Len(s) :
        /\ \A k \in i..j : s[k] \in class
        /\ (j < Len(s) => s[j + 1] \notin class)

\* re.match(r'(\w+)\((\d+),\s*(\d+)\)', s): <<>> when there is no match, else
\* <<group 2, group 3>>
MatchPrecisionScale(s) ==
    LET w == RunEnd(s, 1, WordChars)
        p == RunEnd(s, w + 2, Digits)
        b == RunEnd(s, p + 2, SpaceChars)
        q == RunEnd(s, b + 1, Digits)
    IN  IF /\ w >= 1
           /\ w + 1 <= Len(s) /\ s[w + 1] = "("
           /\ p >= w + 2
           /\ p + 1 <= Len(s) /\ s[p + 1] = ","
           /\ q >= b + 1
           /\ q + 1 <= Len(s) /\ s[q + 1] = ")"
        THEN <<SubSeq(s, w + 2, p), SubSeq(s, b + 1, q)>>
        ELSE <<>>

\* the string literals of the function
S_UUID == <<"U", "U", "I", "D">>

S_SERIAL == <<"S", "E", "R", "I", "A", "L">>

S_VARCHAR == <<"V", "A", "R", "C", "H", "A", "R">>

S_TEXT == <<"T", "E", "X", "T">>

S_INT == <<"I", "N", "T">>

S_INTEGER == <<"I", "N", "T", "E", "G", "E", "R">>

S_BOOLEAN == <<"B", "O", "O", "L", "E", "A", "N">>

S_TIMESTAMP == <<"T", "I", "M", "E", "S", "T", "A", "M", "P">>

S_WITH_TIME_ZONE == <<"W", "I", "T", "H", " ", "T", "I", "M", "E", " ", "Z", "O", "N", "E">>

S_DATE == <<"D", "A", "T", "E">>

S_JSON == <<"J", "S", "O", "N">>

S_JSONB == <<"J", "S", "O", "N", "B">>

S_DECIMAL == <<"D", "E", "C", "I", "M", "A", "L">>

S_NUMERIC == <<"N", "U", "M", "E", "R", "I", "C">>

\* the value returned: a type token alone is a result without options
Result(type, options) == [type |-> type, options |-> options]

\* str(True), the value of the option withTimezone
PyTrue == <<"T", "r", "u", "e">>

pg_type_to_drizzle_type(pg_type_arg) ==
    LET pg_type == Upper(pg_type_arg)
    IN  IF pg_type = S_UUID THEN Result("uuid", <<>>)
        ELSE IF pg_type = S_SERIAL THEN Result("serial", <<>>)
        ELSE IF StartsWith(pg_type, S_VARCHAR) \/ pg_type = S_TEXT THEN Result("text", <<>>)
        ELSE IF StartsWith(pg_type, S_INT) \/ pg_type = S_INTEGER THEN Result("integer", <<>>)
        ELSE IF pg_type = S_BOOLEAN THEN Result("boolean", <<>>)
        ELSE IF StartsWith(pg_type, S_TIMESTAMP)
             THEN IF Contains(pg_type, S_WITH_TIME_ZONE)
                  THEN Result("timestamp", <<<<"withTimezone", PyTrue>>>>)
                  ELSE Result("timestamp", <<>>)
        ELSE IF StartsWith(pg_type, S_DATE) THEN Result("date", <<>>)
        ELSE IF pg_type = S_JSON THEN Result("json", <<>>)
        ELSE IF pg_type = S_JSONB THEN Result("jsonb", <<>>)
        ELSE IF StartsWith(pg_type, S_DECIMAL) \/ StartsWith(pg_type, S_NUMERIC)
             THEN LET match == MatchPrecisionScale(pg_type)
                       IN  IF match # <<>>
                           THEN Result("decimal", << <<"precision", match[1]>>,
                                                     <<"scale", match[2]>> >>)
                      ELSE Result("decimal", <<>>)
        ELSE Result("text", <<>>)

(***************************************************************************)
(* generate_drizzle_schema (src/generate_drizzle.py), on the document      *)
(* generate_sql reads.  A field of a table definition is a record: the     *)
(* column name, the type token, the type options and the modifiers chained *)
(* to it, in order.                                                        *)
(***************************************************************************)
\* the characters of the type and default values of the model
Chars(s) ==
    CASE s = "INT" -> <<"I", "N", "T">>
      [] s = "TEXT" -> <<"T", "E", "X", "T">>
      [] s = "0" -> <<"0">>
      [] OTHER -> <<>>

\* s.endswith(p)
EndsWith(s, p) == Len(s) >= Len(p) /\ SubSeq(s, Len(s) - Len(p) + 1, Len(s)) = p

\* the value of a type option as written: str(v).lower() for a bool
DzOptionValue(v) == IF v = PyTrue THEN <<"t", "r", "u", "e">> ELSE v

\* options_str: the options of the mapped type
DzTypeOptions(options) ==
    [i \in 1..Len(options) |-> <<options[i][1], DzOptionValue(options[i][2])>>]

\* the grave accent, by name, and the quote characters
Grave == << "GRAVE" >>

SingleQuote == << "'" >>

DoubleQuote == << "\"" >>

\* the default modifier of a column (lines 100-114)
DzDefault(e, drizzle_type) ==
    LET default_val == GetOr(e, "default", "")
        cs == Chars(default_val)
    IN  IF ~Has(e, "default") THEN <<>>
        ELSE IF StartsWith(cs, <<"s", "q", "l">> \o Grave) /\ EndsWith(cs, Grave)
        THEN << <<"default", default_val>> >>
        ELSE IF default_val = "now()" THEN << <<"defaultNow">> >>
        ELSE IF default_val = "uuid_generate_v4()"
        THEN << <<"default", "sql", Grave[1], "uuid_generate_v4()", Grave[1]>> >>
        ELSE IF drizzle_type \in {"text", "varchar"}
                /\ ~(StartsWith(cs, SingleQuote) \/ StartsWith(cs, DoubleQuote))
        THEN << <<"default", "'", default_val, "'">> >>
        ELSE << <<"default", default_val>> >>

\* col_def: the field of an addColumn child (lines 76-119)
DzColDef(e) ==
    LET drizzle_type_result == pg_type_to_drizzle_type(Chars(GetOr(e, "type", "")))
    IN  [ name |-> GetOr(e, "name", ""),
          type |-> drizzle_type_result.type,
          options |-> DzTypeOptions(drizzle_type_result.options),
          modifiers |->
              (IF NotNullFlag(e) THEN << <<"notNull">> >> ELSE <<>>)
              \o DzDefault(e, drizzle_type_result.type)
              \o (IF PrimaryKeyFlag(e) THEN << <<"primaryKey">> >> ELSE <<>>) ]

\* an addColumn child the generator skips: not col_name or not col_type
DzMissingName(e) == ~Truthy(e, "name")

DzMissing(e) == ~Truthy(e, "name") \/ ~Truthy(e, "type")

\* a list of fields that holds one field per column name
DzAppendOnce(columns, col_def) ==
    IF \E i \in 1..Len(columns) : columns[i].name = col_def.name
    THEN [i \in 1..Len(columns) |->
             IF columns[i].name = col_def.name THEN col_def ELSE columns[i]]
    ELSE Append(columns, col_def)

\* columns.append(col_def)
DzAppend(columns, col_def) == Append(columns, col_def)

\* table_def: the binding, its fields, its foreign key block (lines 145-149)
DzTableDef(name, columns, fks) == [name |-> name, columns |-> columns, foreign_keys |-> fks]

\* lines 48-55
DzInit ==
    /\ dz_columns = <<>>
    /\ dz_foreign_keys = <<>>
    /\ dz_table_definitions = <<>>

\* lines 58-65: the head of the addTable branch, on the command just read
DzAddTable ==
    IF ~Truthy(command', "name")
    THEN UNCHANGED dzvars
    ELSE /\ dz_columns' = <<>>
         /\ dz_foreign_keys' = <<>>
         /\ UNCHANGED dz_table_definitions

\* lines 68-120: the addColumn branch, on the child just read
DzAddColumn ==
    LET child == children'[Len(children')]
    IN  /\ dz_columns' = IF DzMissing(child) THEN dz_columns
                         ELSE DzAppend(dz_columns, DzColDef(child))
        /\ UNCHANGED <<dz_foreign_keys, dz_table_definitions>>

\* lines 144-152: the child loop is over
DzEndTable ==
    /\ dz_table_definitions' =
          Append(dz_table_definitions,
                 DzTableDef(GetOr(command, "name", ""), dz_columns, dz_foreign_keys))
    /\ UNCHANGED <<dz_columns, dz_foreign_keys>>

\* an element no branch of generate_drizzle_schema handles (lines 57-58, 67-68)
DzNoBranch == UNCHANGED dzvars

(***************************************************************************)
(* The two generators on one document.                                     *)
(***************************************************************************)
TmIdle == tm_pc = "idle" /\ tm_in = <<>> /\ tm_out = [type |-> "", options |-> <<>>]

Init == SqlInit /\ DzInit /\ TmIdle

Next ==
    \/ Begin /\ DzNoBranch
    \/ CreateExtension /\ DzNoBranch
    \/ AddTable /\ DzAddTable
    \/ AddColumn /\ DzAddColumn
    \/ RemoveColumn /\ DzNoBranch
    \/ AddForeignKey /\ DzNoBranch
    \/ AddIndex /\ DzNoBranch
    \/ RemoveIndex /\ DzNoBranch
    \/ UnrecognizedChild /\ DzNoBranch
    \/ EndTable /\ DzEndTable
    \/ RemoveTable /\ DzNoBranch
    \/ UnrecognizedCommand /\ DzNoBranch
    \/ Commit /\ DzNoBranch

Spec == Init /\ [][Next]_vars

(***************************************************************************)
(* The type strings of the model: a type name followed by a suffix.        *)
(***************************************************************************)
TypeNames ==
    {
      <<"u", "u", "i", "d">>, <<"U", "U", "I", "D">>, <<"U", "u", "i", "d">>,
      <<"s", "e", "r", "i", "a", "l">>, <<"S", "E", "R", "I", "A", "L">>, <<"S", "e", "r", "i", "a", "l">>,
      <<"v", "a", "r", "c", "h", "a", "r">>, <<"V", "A", "R", "C", "H", "A", "R">>, <<"V", "a", "r", "c", "h", "a", "r">>,
      <<"t", "e", "x", "t">>, <<"T", "E", "X", "T">>, <<"T", "e", "x", "t">>,
      <<"i", "n", "t">>, <<"I", "N", "T">>, <<"I", "n", "t">>,
      <<"i", "n", "t", "e", "g", "e", "r">>, <<"I", "N", "T", "E", "G", "E", "R">>, <<"I", "n", "t", "e", "g", "e", "r">>,
      <<"i", "n", "t", "e", "r", "v", "a", "l">>, <<"I", "N", "T", "E", "R", "V", "A", "L">>, <<"I", "n", "t", "e", "r", "v", "a", "l">>,
      <<"b", "i", "g", "i", "n", "t">>, <<"B", "I", "G", "I", "N", "T">>, <<"B", "i", "g", "i", "n", "t">>,
      <<"b", "o", "o", "l", "e", "a", "n">>, <<"B", "O", "O", "L", "E", "A", "N">>, <<"B", "o", "o", "l", "e", "a", "n">>,
      <<"b", "o", "o", "l">>, <<"B", "O", "O", "L">>, <<"B", "o", "o", "l">>,
      <<"t", "i", "m", "e", "s", "t", "a", "m", "p">>, <<"T", "I", "M", "E", "S", "T", "A", "M", "P">>, <<"T", "i", "m", "e", "s", "t", "a", "m", "p">>,
      <<"t", "i", "m", "e", "s", "t", "a", "m", "p", "t", "z">>, <<"T", "I", "M", "E", "S", "T", "A", "M", "P", "T", "Z">>, <<"T", "i", "m", "e", "s", "t", "a", "m", "p", "t", "z">>,
      <<"d", "a", "t", "e">>, <<"D", "A", "T", "E">>, <<"D", "a", "t", "e">>,
      <<"d", "a", "t", "e", "t", "i", "m", "e">>, <<"D", "A", "T", "E", "T", "I", "M", "E">>, <<"D", "a", "t", "e", "t", "i", "m", "e">>,
      <<"j", "s", "o", "n">>, <<"J", "S", "O", "N">>, <<"J", "s", "o", "n">>,
      <<"j", "s", "o", "n", "b">>, <<"J", "S", "O", "N", "B">>, <<"J", "s", "o", "n", "b">>,
      <<"d", "e", "c", "i", "m", "a", "l">>, <<"D", "E", "C", "I", "M", "A", "L">>, <<"D", "e", "c", "i", "m", "a", "l">>,
      <<"n", "u", "m", "e", "r", "i", "c">>, <<"N", "U", "M", "E", "R", "I", "C">>, <<"N", "u", "m", "e", "r", "i", "c">>,
      <<"n", "u", "m", "b", "e", "r">>, <<"N", "U", "M", "B", "E", "R">>, <<"N", "u", "m", "b", "e", "r">>,
      <<"x", "m", "l">>, <<"X", "M", "L">>, <<"X", "m", "l">>,
      <<>>
    }

TypeSuffixes ==
    {
      <<>>, <<"(", "2", "5", "5", ")">>, <<"(", "1", "0", ",", "2", ")">>,
      <<"(", "1", "0", ",", " ", "2", ")">>, <<"(", "1", "0", ",", "\r", "2", ")">>,
      <<"(", "1", "0", ",", "2", ")", " ">>, <<"(", "1", "0", ")">>,
      <<" ", "(", "1", "0", ",", "2", ")">>, <<"(", "x", ",", "2", ")">>, <<" ", "w", "i", "t", "h", " ", "t", "i", "m", "e", " ", "z", "o", "n", "e">>,
      <<" ", "W", "I", "T", "H", " ", "T", "I", "M", "E", " ", "Z", "O", "N", "E">>, <<" ", "w", "i", "t", "h", "o", "u", "t", " ", "t", "i", "m", "e", " ", "z", "o", "n", "e">>, <<"s">>
    }

TypeStrings == {n \o x : n \in TypeNames, x \in TypeSuffixes}

NoResult == Result("", <<>>)

TmInit == tm_pc = "call" /\ tm_in \in TypeStrings /\ tm_out = NoResult

\* the call returns
TmReturn ==
    /\ tm_pc = "call"
    /\ tm_out' = pg_type_to_drizzle_type(tm_in)
    /\ tm_pc' = "return"
    /\ UNCHANGED <<tm_in, sqlvars, dzvars>>

TmNext == TmReturn

InitTypeMapper == SqlInit /\ DzInit /\ TmInit

\* one call of pg_type_to_drizzle_type
SpecTypeMapper == InitTypeMapper /\ [][TmNext]_vars

(***************************************************************************)
(* Vocabulary of the properties.                                           *)
(***************************************************************************)
\* the statements the step appends to sql_statements
Emitted == SubSeq(sql_statements', Len(sql_statements) + 1, Len(sql_statements'))

\* the statements of s of the given kind
OfKind(s, kind) == SelectSeq(s, LAMBDA x : x.kind = kind)

\* the step reads a child of the <addTable>
ChildStep == pc = "table" /\ pc' = "table" /\ Len(children') = Len(children) + 1

\* the step ends an <addTable>: its statements are emitted
EndTableStep == pc = "table" /\ pc' = "top"

\* an <addTable> has just been handled to its end
TableEnded == pc = "top" /\ command.tag = "addTable" /\ Truthy(command, "name")

\* attribute k of e is present and not empty
Given(e, k) == e.attrib[k] \notin {<<>>, <<"">>}

\* the element has the attributes its tag requires
WellFormed(e) ==
    CASE e.tag \in {"addTable", "removeTable", "createExtension", "removeColumn", "removeIndex"}
            -> Given(e, "name")
      [] e.tag = "addColumn" -> Given(e, "name") /\ Given(e, "type")
      [] e.tag = "addForeignKey" ->
            Given(e, "column") /\ Given(e, "refTable") /\ Given(e, "refColumn")
      [] e.tag = "addIndex" -> Given(e, "name") /\ Given(e, "columns")
      [] OTHER -> TRUE

\* an attribute value that enables a boolean attribute: true, yes, 1 in any letter case
EnablingValues == {"true", "TRUE", "True", "yes", "YES", "Yes", "1"}

Enabled(e, k) == e.attrib[k] # <<>> /\ e.attrib[k][1] \in EnablingValues

\* child i of kids is a well-formed addColumn / removeColumn of column c
AddsAt(kids, i, c) ==
    kids[i].tag = "addColumn" /\ WellFormed(kids[i]) /\ kids[i].attrib["name"] = <<c>>

RemovesAt(kids, i, c) ==
    kids[i].tag = "removeColumn" /\ WellFormed(kids[i]) /\ kids[i].attrib["name"] = <<c>>

Max(S) == CHOOSE x \in S : \A y \in S : y <= x

Min(S) == CHOOSE x \in S : \A y \in S : x <= y

\* position of the last well-formed removeColumn of c (0: none)
LastRemoved(kids, c) == Max({0} \cup {i \in 1..Len(kids) : RemovesAt(kids, i, c)})

\* position of the last well-formed addColumn of c (0: none)
LastAdded(kids, c) == Max({0} \cup {i \in 1..Len(kids) : AddsAt(kids, i, c)})

\* the last add/remove operation on c is an addColumn
Declared(kids, c) == LastAdded(kids, c) > LastRemoved(kids, c)

\* position of the first well-formed addColumn of c
FirstDeclaredAt(kids, c) == Min({i \in 1..Len(kids) : AddsAt(kids, i, c)})

\* position of the first well-formed addColumn of c after its last removal
IntroducedAt(kids, c) ==
    Min({i \in 1..Len(kids) : AddsAt(kids, i, c) /\ i > LastRemoved(kids, c)})

\* the column names of a CREATE TABLE statement, in order
ColumnsOf(stmt) == [i \in 1..Len(stmt.arg) |-> stmt.arg[i][1]]

\* every column name the children mention
MentionedColumns(kids) ==
    {kids[i].attrib["name"][1] : i \in {j \in 1..Len(kids) : Given(kids[j], "name")}}

(***************************************************************************)
(* C1.  Running the output against a database.                             *)
(*                                                                         *)
(* The database is what the statements create and drop: tables, columns,   *)
(* constraints, indexes, functions, triggers, extensions.  A statement     *)
(* fails only when the relation it names does not exist or when the        *)
(* object it creates without a guard already exists; a statement that      *)
(* fails here fails in PostgreSQL.  The script runs in one transaction: a  *)
(* failing statement leaves the database as it was before the script.      *)
(***************************************************************************)
EmptyDb ==
    [tables |-> {}, columns |-> {}, constraints |-> {}, indexes |-> {},
     functions |-> {}, triggers |-> {}, extensions |-> {}]

\* a database that only holds the table u(id PRIMARY KEY)
DbWithU ==
    [EmptyDb EXCEPT !.tables = {<<"u">>},
                    !.columns = {[table |-> <<"u">>, name |-> "id"]},
                    !.constraints = {[table |-> <<"u">>, name |-> <<"u", "_pkey">>, col |-> "id"]}]

\* a database that also holds the table t(a, b)
DbWithTU ==
    [DbWithU EXCEPT !.tables = @ \cup {<<"t">>},
                    !.columns = @ \cup {[table |-> <<"t">>, name |-> "a"],
                                        [table |-> <<"t">>, name |-> "b"]}]

StartDbs == {DbWithU, DbWithTU}

Done(db) == [ok |-> TRUE, db |-> db]

Failed(db) == [ok |-> FALSE, db |-> db]

HasPart(def, part) == \E i \in 1..Len(def) : def[i] = part

\* the column of a column definition, and the primary key it declares
DefColumns(t, defs) == {[table |-> t, name |-> defs[i][1]] : i \in 1..Len(defs)}

DefConstraints(t, defs) ==
    {[table |-> t, name |-> t \o <<"_pkey">>, col |-> defs[i][1]] :
        i \in {j \in 1..Len(defs) : HasPart(defs[j], "PRIMARY KEY")}}

\* the database after one statement
Exec(db, s) ==
    LET t == s.table
        missing == t \notin db.tables
    IN  CASE s.kind \in {"BEGIN", "COMMIT"} -> Done(db)
          [] s.kind = "CREATE EXTENSION IF NOT EXISTS" ->
                Done([db EXCEPT !.extensions = @ \cup {s.name}])
          [] s.kind = "CREATE TABLE IF NOT EXISTS" ->
                IF ~missing THEN Done(db)
                ELSE Done([db EXCEPT !.tables = @ \cup {t},
                                     !.columns = @ \cup DefColumns(t, s.arg),
                                     !.constraints = @ \cup DefConstraints(t, s.arg)])
          [] s.kind = "CREATE TABLE IF NOT EXISTS LIKE" ->
                IF ~missing THEN Done(db)
                ELSE IF s.arg[1] \notin db.tables THEN Failed(db)
                ELSE Done([db EXCEPT !.tables = @ \cup {t},
                                     !.columns = @ \cup {[table |-> t, name |-> c.name] :
                                                           c \in {x \in db.columns : x.table = s.arg[1]}}])
          [] s.kind = "ALTER TABLE ADD COLUMN IF NOT EXISTS" ->
                IF missing THEN Failed(db)
                ELSE IF [table |-> t, name |-> s.name[1]] \in db.columns THEN Done(db)
                ELSE Done([db EXCEPT !.columns = @ \cup DefColumns(t, s.arg),
                                     !.constraints = @ \cup DefConstraints(t, s.arg)])
          [] s.kind = "ALTER TABLE DROP COLUMN IF EXISTS" ->
                IF missing THEN Failed(db)
                ELSE Done([db EXCEPT
                             !.columns = @ \ {[table |-> t, name |-> s.name[1]]},
                             !.constraints = {c \in @ : ~(c.table = t /\ c.col = s.name[1])},
                             !.indexes = {x \in @ : ~(x.table = t /\ x.cols = s.name[1])}])
          [] s.kind = "ALTER TABLE DROP CONSTRAINT IF EXISTS" ->
                IF missing THEN Failed(db)
                ELSE Done([db EXCEPT !.constraints = {c \in @ : ~(c.table = t /\ c.name = s.name)}])
          [] s.kind \in {"ALTER TABLE ADD CONSTRAINT UNIQUE", "ALTER TABLE ADD CONSTRAINT PRIMARY KEY",
                         "ALTER TABLE ADD CONSTRAINT FOREIGN KEY"} ->
                IF missing \/ (\E c \in db.constraints : c.table = t /\ c.name = s.name)
                THEN Failed(db)
                ELSE Done([db EXCEPT !.constraints =
                                        @ \cup {[table |-> t, name |-> s.name, col |-> s.arg[1][1]]}])
          [] s.kind = "DROP INDEX IF EXISTS" ->
                Done([db EXCEPT !.indexes = {x \in @ : x.name # s.name}])
          [] s.kind = "CREATE INDEX" ->
                IF missing \/ (\E x \in db.indexes : x.name = s.name) THEN Failed(db)
                ELSE Done([db EXCEPT !.indexes =
                                        @ \cup {[name |-> s.name, table |-> t, cols |-> s.arg[1][1]]}])
          [] s.kind = "CREATE INDEX IF NOT EXISTS" ->
                IF missing THEN Failed(db)
                ELSE IF \E x \in db.indexes : x.name = s.name THEN Done(db)
                ELSE Done([db EXCEPT !.indexes =
                                        @ \cup {[name |-> s.name, table |-> t, cols |-> s.arg[1][1]]}])
          [] s.kind = "CREATE OR REPLACE FUNCTION" ->
                Done([db EXCEPT !.functions = @ \cup {s.name}])
          [] s.kind = "DROP TRIGGER IF EXISTS" ->
                Done([db EXCEPT !.triggers = @ \ {[table |-> t, name |-> s.name]}])
          [] s.kind = "CREATE TRIGGER" ->
                IF missing \/ [table |-> t, name |-> s.name] \in db.triggers
                   \/ s.arg[2] \notin db.functions
                THEN Failed(db)
                ELSE Done([db EXCEPT !.triggers = @ \cup {[table |-> t, name |-> s.name]}])
          [] s.kind = "DROP TABLE IF EXISTS" ->
                Done([db EXCEPT !.tables = @ \ {t},
                                !.columns = {c \in @ : c.table # t},
                                !.constraints = {c \in @ : c.table # t},
                                !.indexes = {x \in @ : x.table # t},
                                !.triggers = {x \in @ : x.table # t}])

\* the database after the statements from the i-th on
RECURSIVE RunFrom(_, _, _)
RunFrom(stmts, i, db) ==
    IF i > Len(stmts) THEN Done(db)
    ELSE LET r == Exec(db, stmts[i])
         IN  IF r.ok THEN RunFrom(stmts, i + 1, r.db) ELSE r

\* the script run against db0: rolled back when a statement fails
RunScript(stmts, db0) ==
    LET r == RunFrom(stmts, 1, db0) IN IF r.ok THEN r ELSE Failed(db0)

\* the tables the script needs: those it alters, indexes, copies or binds a
\* trigger to
UsedTables(stmts) ==
    {stmts[i].table : i \in {j \in 1..Len(stmts) :
        stmts[j].kind \in {"ALTER TABLE ADD COLUMN IF NOT EXISTS", "ALTER TABLE DROP COLUMN IF EXISTS",
                           "ALTER TABLE DROP CONSTRAINT IF EXISTS", "ALTER TABLE ADD CONSTRAINT UNIQUE",
                           "ALTER TABLE ADD CONSTRAINT PRIMARY KEY",
                           "ALTER TABLE ADD CONSTRAINT FOREIGN KEY",
                           "CREATE INDEX", "CREATE INDEX IF NOT EXISTS", "CREATE TRIGGER"}}}
    \cup {stmts[i].arg[1] : i \in {j \in 1..Len(stmts) :
                                     stmts[j].kind = "CREATE TABLE IF NOT EXISTS LIKE"}}

\* the tables the script creates
CreatedTables(stmts) ==
    {stmts[i].table : i \in {j \in 1..Len(stmts) :
        stmts[j].kind \in {"CREATE TABLE IF NOT EXISTS", "CREATE TABLE IF NOT EXISTS LIKE"}}}

\* the columns the constraints and indexes of the script are about
UsedColumns(stmts) ==
    {[table |-> stmts[i].table, name |-> stmts[i].arg[1][1]] : i \in {j \in 1..Len(stmts) :
        stmts[j].kind \in {"ALTER TABLE ADD CONSTRAINT UNIQUE", "ALTER TABLE ADD CONSTRAINT FOREIGN KEY",
                           "CREATE INDEX", "CREATE INDEX IF NOT EXISTS"}}}

\* the columns the CREATE TABLE statements of the script list
CreatedColumns(stmts) ==
    UNION {DefColumns(stmts[i].table, stmts[i].arg) :
             i \in {j \in 1..Len(stmts) : stmts[j].kind = "CREATE TABLE IF NOT EXISTS"}}

\* every history table of the script copies a table the script created before
CopiesCreated(stmts) ==
    \A i \in 1..Len(stmts) :
        stmts[i].kind = "CREATE TABLE IF NOT EXISTS LIKE" =>
            \E j \in 1..(i - 1) : /\ stmts[j].kind = "CREATE TABLE IF NOT EXISTS"
                                  /\ stmts[j].table = stmts[i].arg[1]

\* C1, for the outputs that create every table and column they need, take a
\* history table only of a table created before, and drop no table: run from
\* a database that holds the referenced table u, no statement fails, and a
\* second run fails nowhere and leaves the database as the first run left it.
C1_Idempotent ==
    pc = "done"
    /\ UsedTables(sql_statements) \subseteq CreatedTables(sql_statements)
    /\ CopiesCreated(sql_statements)
    /\ UsedColumns(sql_statements) \subseteq CreatedColumns(sql_statements)
    /\ OfKind(sql_statements, "DROP TABLE IF EXISTS") = <<>>
    => \A db0 \in StartDbs :
          LET once == RunScript(sql_statements, db0)
              twice == RunScript(sql_statements, once.db)
          IN  once.ok /\ twice.ok /\ twice.db = once.db

(***************************************************************************)
(* C2.  Columns of the CREATE TABLE statement.                             *)
(***************************************************************************)
\* the CREATE TABLE statements among the emitted ones
EmittedCreates == OfKind(Emitted, "CREATE TABLE IF NOT EXISTS")

\* the emitted CREATE TABLE holds exactly the declared columns, once each
ExactlyDeclared ==
    LET cols == ColumnsOf(EmittedCreates[1])
    IN  /\ {cols[i] : i \in 1..Len(cols)} = {c \in MentionedColumns(children) : Declared(children, c)}
        /\ \A i, j \in 1..Len(cols) : cols[i] = cols[j] => i = j

\* C2 as stated: when an <addTable> ends, the CREATE TABLE it emits lists
\* exactly the columns whose last add/remove operation is an addColumn, each
\* once, in the order of their first declaration.
C2_FirstDeclaredOrder ==
    [][EndTableStep /\ EmittedCreates # <<>> =>
         /\ ExactlyDeclared
         /\ LET cols == ColumnsOf(EmittedCreates[1])
            IN  \A i, j \in 1..Len(cols) :
                    i < j => FirstDeclaredAt(children, cols[i]) < FirstDeclaredAt(children, cols[j])
      ]_vars

\* C2 amended: when an <addTable> ends it emits one CREATE TABLE exactly when
\* some column's last add/remove operation is an addColumn; the statement
\* lists exactly those columns, each once, ordered by the first addColumn that
\* follows the column's last removeColumn (a column that is removed and added
\* again moves behind the columns declared in between).
C2_IntroducedOrder ==
    [][EndTableStep =>
         IF \E c \in MentionedColumns(children) : Declared(children, c)
         THEN /\ Len(EmittedCreates) = 1
              /\ Emitted[1] = EmittedCreates[1]
              /\ EmittedCreates[1].table = <<table_name[1]>>
              /\ ExactlyDeclared
              /\ LET cols == ColumnsOf(EmittedCreates[1])
                 IN  \A i, j \in 1..Len(cols) :
                         i < j => IntroducedAt(children, cols[i]) < IntroducedAt(children, cols[j])
         ELSE EmittedCreates = <<>>
      ]_vars

\* C2 witness: a table has ended whose CREATE TABLE holds a column that was
\* removed and added again, after a column declared in between.
C2_Witness ==
    /\ TableEnded
    /\ sql_statements[Len(sql_statements) - Len(alter_ops)].kind = "CREATE TABLE IF NOT EXISTS"
    /\ \E c, d \in MentionedColumns(children) :
          /\ Declared(children, c) /\ Declared(children, d)
          /\ LastRemoved(children, c) > 0
          /\ FirstDeclaredAt(children, c) < FirstDeclaredAt(children, d)
          /\ IntroducedAt(children, d) < IntroducedAt(children, c)

(***************************************************************************)
(* C3.  Order of the statements of one <addTable>.                         *)
(***************************************************************************)
\* the well-formed addForeignKey children
FkChildren(kids) == SelectSeq(kids, LAMBDA c : c.tag = "addForeignKey" /\ WellFormed(c))

\* C3: when an <addTable> ends, what it emits starts with the CREATE TABLE
\* (if there are effective columns), then alter_ops, then for every
\* well-formed addForeignKey child its DROP CONSTRAINT IF EXISTS and its ADD
\* CONSTRAINT; no statement of the table was emitted before.
C3_TableOrder ==
    [][/\ (ChildStep => sql_statements' = sql_statements)
       /\ (EndTableStep =>
             LET k == IF effective_columns # <<>> THEN 1 ELSE 0
                 n == k + Len(alter_ops)
                 fks == FkChildren(children)
             IN  /\ Len(Emitted) >= n + 2 * Len(fks)
                 /\ k = 1 => Emitted[1].kind = "CREATE TABLE IF NOT EXISTS"
                 /\ SubSeq(Emitted, k + 1, n) = alter_ops
                 /\ \A i \in 1..Len(fks) :
                       /\ Emitted[n + 2 * i - 1] =
                             DropConstraintStmt(<<table_name[1]>>,
                                                FkName(table_name[1], GetOr(fks[i], "column", "")))
                       /\ Emitted[n + 2 * i] = ForeignKeyStmt(table_name[1], fks[i]))
      ]_vars

(***************************************************************************)
(* C4.  BEGIN and COMMIT.                                                  *)
(***************************************************************************)
IsPrefix(s, t) == Len(s) <= Len(t) /\ SubSeq(t, 1, Len(s)) = s

\* C4: statements are only ever appended (so they stay in the order of the
\* commands that produced them), and the list returned starts with the one
\* BEGIN and ends with the one COMMIT.
C4_Wrapped ==
    [][/\ IsPrefix(sql_statements, sql_statements')
       /\ (pc' = "done" =>
             LET out == sql_statements'
             IN  /\ Len(out) >= 2
                 /\ out[1] = BeginStmt
                 /\ out[Len(out)] = CommitStmt
                 /\ \A i \in 2..(Len(out) - 1) : out[i].kind \notin {"BEGIN", "COMMIT"})
      ]_vars

\* C4 witness: the document is over, every command of it was skipped, and the
\* output is BEGIN, COMMIT.
C4_Witness ==
    /\ pc = "done"
    /\ nread > 2
    /\ sql_statements = <<BeginStmt, CommitStmt>>

(***************************************************************************)
(* C5.  Skipped elements.                                                  *)
(***************************************************************************)
\* C5: reading a child that lacks a required attribute changes neither the
\* statements nor the effective columns, and when the <addTable> ends what is
\* emitted is what the well-formed children alone would give.
C5_SkipMalformed ==
    [][/\ (ChildStep /\ ~WellFormed(children'[Len(children')]) =>
             UNCHANGED <<sql_statements, alter_ops, foreign_keys, effective_columns>>)
       /\ (EndTableStep =>
             Emitted = TableEmission(table_name[1], is_history, effective_columns, alter_ops,
                                     foreign_keys, SelectSeq(children, WellFormed)))
      ]_vars

(***************************************************************************)
(* C6.  The trigger function and the trigger of a history table.           *)
(***************************************************************************)
\* positions of the emitted statements of a kind
EmittedAt(kind) == {i \in 1..Len(Emitted) : Emitted[i].kind = kind}

\* exactly one function log_history_<table> and one trigger binding are emitted
OneTrigger ==
    /\ Cardinality(EmittedAt("CREATE OR REPLACE FUNCTION")) = 1
    /\ Cardinality(EmittedAt("DROP TRIGGER IF EXISTS")) = 1
    /\ Cardinality(EmittedAt("CREATE TRIGGER")) = 1
    /\ \A i \in EmittedAt("CREATE OR REPLACE FUNCTION") : Emitted[i].name = <<"log_history_", table_name[1]>>
    /\ \A i \in EmittedAt("DROP TRIGGER IF EXISTS") :
          /\ i + 1 \in EmittedAt("CREATE TRIGGER")
          /\ Emitted[i].name = <<"log_history_", table_name[1]>>
          /\ Emitted[i + 1].name = <<"log_history_", table_name[1]>>
          /\ Emitted[i].table = <<table_name[1]>>
          /\ Emitted[i + 1].table = <<table_name[1]>>

NoTrigger ==
    /\ EmittedAt("CREATE OR REPLACE FUNCTION") = {}
    /\ EmittedAt("DROP TRIGGER IF EXISTS") = {}
    /\ EmittedAt("CREATE TRIGGER") = {}

\* C6 as stated: an <addTable> with history enabled emits exactly one function
\* and one trigger binding whatever its children, one without emits none.
C6_AlwaysOneTrigger ==
    [][EndTableStep => IF Enabled(command, "history") THEN OneTrigger ELSE NoTrigger]_vars

\* C6 amended: an <addTable> with history enabled whose effective column set
\* is not empty when it ends emits exactly one function and one trigger
\* binding (DROP TRIGGER IF EXISTS, then CREATE TRIGGER); with an empty
\* effective column set, or without history, it emits none.
C6_OneTriggerIfColumns ==
    [][EndTableStep =>
         IF Enabled(command, "history")
            /\ \E c \in MentionedColumns(children) : Declared(children, c)
         THEN OneTrigger ELSE NoTrigger]_vars

\* C6 witness: a history table with effective columns has ended, and the
\* output ends with its trigger.
C6_Witness ==
    /\ TableEnded
    /\ Enabled(command, "history")
    /\ effective_columns # <<>>
    /\ sql_statements[Len(sql_statements)].kind = "CREATE TRIGGER"

(***************************************************************************)
(* C7.  Shape of the history table.                                        *)
(***************************************************************************)
\* the columns the emitted statements give the history table: those copied
\* from the tracked table (LIKE) and those added
HistoryColumns ==
    {Emitted[i].name[1] :
        i \in {j \in EmittedAt("ALTER TABLE ADD COLUMN IF NOT EXISTS") :
                 Emitted[j].table = HistTable(table_name[1])}}
    \cup (IF EmittedAt("CREATE TABLE IF NOT EXISTS LIKE") # {}
          THEN {effective_columns[i].name : i \in 1..Len(effective_columns)} ELSE {})

\* C7: the history table of a history-enabled <addTable> has the columns
\* historyid, changed_at, operation, historyjson whatever the tracked table's
\* columns are, and the trigger function writes the operation as I, U or D.
C7_FixedHistoryShape ==
    [][EndTableStep /\ Enabled(command, "history") =>
         /\ HistoryColumns = {"historyid", "changed_at", "operation", "historyjson"}
         /\ \A i \in EmittedAt("CREATE OR REPLACE FUNCTION") :
               Emitted[i].arg[2] = <<"I", "U", "D">>
      ]_vars

(***************************************************************************)
(* C8.  removeTable keeps the history table.                               *)
(***************************************************************************)
\* C8: a removeTable with a name emits DROP TABLE IF EXISTS <name> and no
\* statement that drops a history table.
C8_HistoryRetained ==
    [][pc = "top" /\ nread' # nread /\ command'.tag = "removeTable" /\ WellFormed(command') =>
         Emitted = <<DropTableStmt(<<GetOr(command', "name", "")>>)>>
      ]_vars

(***************************************************************************)
(* C9.  Boolean attributes.                                                *)
(***************************************************************************)
\* C9: history, primaryKey, unique and update are enabled by true, yes and 1
\* in any letter case: the table is then a history table, the column
\* definition holds PRIMARY KEY, the column gets its unique constraint, the
\* index is dropped and created again.
C9_BooleanAttributes ==
    [][/\ (pc' = "table" /\ pc = "top" => is_history' = Enabled(command', "history"))
       /\ (ChildStep /\ WellFormed(children'[Len(children')]) =>
             LET e == children'[Len(children')]
                 added == SubSeq(alter_ops', Len(alter_ops) + 1, Len(alter_ops'))
             IN  /\ e.tag = "addColumn" =>
                       /\ Enabled(e, "primaryKey") <=>
                             (\E i \in 1..Len(added[1].arg[1]) : added[1].arg[1][i] = "PRIMARY KEY")
                       /\ Enabled(e, "unique") <=>
                             (OfKind(added, "ALTER TABLE ADD CONSTRAINT UNIQUE") # <<>>)
                 /\ e.tag = "addIndex" =>
                       (Enabled(e, "update") <=> (OfKind(added, "DROP INDEX IF EXISTS") # <<>>)))
      ]_vars

(***************************************************************************)
(* C10.  The type mapper.                                                  *)
(***************************************************************************)
\* c and d are the same character up to letter case
SameFold(c, d) ==
    c = d \/ \E i \in 1..Len(LowerLetters) : {c, d} = {LowerLetters[i], UpperLetters[i]}

\* s is word up to letter case
IsWord(s, word) == Len(s) = Len(word) /\ \A i \in 1..Len(s) : SameFold(s[i], word[i])

\* s starts with word up to letter case
HasPrefix(s, word) == Len(s) >= Len(word) /\ IsWord(SubSeq(s, 1, Len(word)), word)

\* s holds word up to letter case
HasWord(s, word) ==
    \E i \in 0..(Len(s) - Len(word)) : IsWord(SubSeq(s, i + 1, i + Len(word)), word)

\* the <<precision, scale>> of s read as NAME(p, s): a name of word
\* characters, "(", digits, ",", optional blanks, digits, ")"
PrecisionScale(s) ==
    { <<SubSeq(s, i + 1, j - 1), SubSeq(s, m, l - 1)>> :
        <<i, j, m, l>> \in
          { q \in (1..Len(s)) \X (1..Len(s)) \X (1..Len(s)) \X (1..Len(s)) :
              /\ 1 < q[1] /\ q[1] + 1 < q[2] /\ q[2] < q[3] /\ q[3] < q[4]
              /\ s[q[1]] = "(" /\ s[q[2]] = "," /\ s[q[4]] = ")"
              /\ \A k \in 1..(q[1] - 1) : s[k] \in WordChars
              /\ \A k \in (q[1] + 1)..(q[2] - 1) : s[k] \in Digits
              /\ \A k \in (q[2] + 1)..(q[3] - 1) : s[k] \in SpaceChars
              /\ \A k \in q[3]..(q[4] - 1) : s[k] \in Digits } }

\* the mapping rules, in the listed order
RuleMatches(r, s) ==
    CASE r = 1 -> IsWord(s, S_UUID)
      [] r = 2 -> IsWord(s, S_SERIAL)
      [] r = 3 -> HasPrefix(s, S_VARCHAR) \/ IsWord(s, S_TEXT)
      [] r = 4 -> HasPrefix(s, S_INT)
      [] r = 5 -> IsWord(s, S_BOOLEAN)
      [] r = 6 -> HasPrefix(s, S_TIMESTAMP)
      [] r = 7 -> HasPrefix(s, S_DATE)
      [] r = 8 -> IsWord(s, S_JSON)
      [] r = 9 -> IsWord(s, S_JSONB)
      [] r = 10 -> HasPrefix(s, S_DECIMAL) \/ HasPrefix(s, S_NUMERIC)

RuleResult(r, s) ==
    CASE r = 1 -> Result("uuid", <<>>)
      [] r = 2 -> Result("serial", <<>>)
      [] r = 3 -> Result("text", <<>>)
      [] r = 4 -> Result("integer", <<>>)
      [] r = 5 -> Result("boolean", <<>>)
      [] r = 6 -> IF HasWord(s, S_WITH_TIME_ZONE)
                  THEN Result("timestamp", <<<<"withTimezone", PyTrue>>>>)
                  ELSE Result("timestamp", <<>>)
      [] r = 7 -> Result("date", <<>>)
      [] r = 8 -> Result("json", <<>>)
      [] r = 9 -> Result("jsonb", <<>>)
      [] r = 10 -> IF PrecisionScale(s) # {}
                   THEN LET ps == CHOOSE x \in PrecisionScale(s) : TRUE
                        IN  Result("decimal", << <<"precision", ps[1]>>, <<"scale", ps[2]>> >>)
                   ELSE Result("decimal", <<>>)
      [] OTHER -> Result("text", <<>>)

\* the first rule s matches (0: none)
FirstRule(s) ==
    IF \E r \in 1..10 : RuleMatches(r, s)
    THEN Min({r \in 1..10 : RuleMatches(r, s)})
    ELSE 0

\* C10: the value returned for a type string is the result of the first rule
\* the string matches up to letter case, text without options when it matches
\* none, and every string equal to it up to letter case gets the same value.
C10_TypeMapper ==
    tm_pc = "return" =>
        /\ tm_out = RuleResult(FirstRule(tm_in), tm_in)
        /\ \A t \in TypeStrings : IsWord(t, tm_in) => pg_type_to_drizzle_type(t) = tm_out

\* C10 witness: a call has returned for a lower-case timestamp with time zone,
\* with the option withTimezone.
C10_Witness ==
    /\ tm_pc = "return"
    /\ tm_in # Upper(tm_in)
    /\ FirstRule(tm_in) = 6
    /\ tm_out.options # <<>>

(***************************************************************************)
(* C11.  The table definitions of generate_drizzle_schema.                 *)
(***************************************************************************)
\* the child the step reads
ChildRead == children'[Len(children')]

\* the well-formed addColumn children, in document order
ValidAddColumns(kids) == SelectSeq(kids, LAMBDA c : c.tag = "addColumn" /\ WellFormed(c))

\* the field names of a table definition, in order
FieldNames(td) == [i \in 1..Len(td.columns) |-> td.columns[i].name]

\* the table definition the step appends
DefinitionAdded == dz_table_definitions'[Len(dz_table_definitions')]

\* C11: the end of an <addTable> with a name appends exactly one table
\* definition, named after the table, whose fields are the well-formed
\* addColumn children in document order, one field each, and which has no
\* foreign key block; no other step appends a table definition; a
\* removeColumn, addForeignKey, addIndex or removeIndex child leaves the
\* fields as they are.
C11_TableDefinition ==
    [][/\ (EndTableStep =>
             /\ Len(dz_table_definitions') = Len(dz_table_definitions) + 1
             /\ SubSeq(dz_table_definitions', 1, Len(dz_table_definitions)) = dz_table_definitions
             /\ DefinitionAdded.name = GetOr(command, "name", "")
             /\ DefinitionAdded.foreign_keys = <<>>
             /\ LET valid == ValidAddColumns(children)
                IN  FieldNames(DefinitionAdded) =
                        [i \in 1..Len(valid) |-> GetOr(valid[i], "name", "")])
       /\ (~EndTableStep => dz_table_definitions' = dz_table_definitions)
       /\ (ChildStep /\ ChildRead.tag \in {"removeColumn", "addForeignKey", "addIndex", "removeIndex"}
             => dz_columns' = dz_columns)
      ]_vars

\* C11 witness: a table has ended whose definition holds two fields or more,
\* among them a column that a removeColumn child names.
C11_Witness ==
    /\ TableEnded
    /\ dz_table_definitions # <<>>
    /\ LET td == dz_table_definitions[Len(dz_table_definitions)]
       IN  /\ Len(td.columns) >= 2
           /\ FieldNames(td) = [i \in 1..Len(ValidAddColumns(children)) |->
                                   GetOr(ValidAddColumns(children)[i], "name", "")]
           /\ \E i \in 1..Len(children), j \in 1..Len(td.columns) :
                 /\ children[i].tag = "removeColumn"
                 /\ children[i].attrib["name"] = <<td.columns[j].name>>

(***************************************************************************)
(* C12.  The two generators agree on the columns of a table.               *)
(***************************************************************************)
\* no child is a removeColumn
NoRemoveColumn(kids) == \A i \in 1..Len(kids) : kids[i].tag # "removeColumn"

\* no column name is added by two well-formed addColumn children
NoColumnTwice(kids) ==
    \A i, j \in 1..Len(ValidAddColumns(kids)) :
        GetOr(ValidAddColumns(kids)[i], "name", "") = GetOr(ValidAddColumns(kids)[j], "name", "")
            => i = j

\* generate_sql skips the child read: it leaves its column set and its
\* statements as they are
SqlSkips == effective_columns' = effective_columns /\ alter_ops' = alter_ops

\* generate_drizzle_schema skips the child read
DrizzleSkips == dz_columns' = dz_columns

\* C12: an addColumn child is skipped by both generators or by neither, and
\* it is skipped exactly when it lacks name or type; when an <addTable>
\* without removeColumn children and without a column added twice ends, the
\* column names of the CREATE TABLE emitted are the field names of the table
\* definition appended, in the same order (no field when no CREATE TABLE is
\* emitted).
C12_GeneratorsAgree ==
    [][/\ (ChildStep /\ ChildRead.tag = "addColumn" =>
             /\ SqlSkips <=> DrizzleSkips
             /\ DrizzleSkips <=> ~WellFormed(ChildRead))
       /\ (EndTableStep /\ NoRemoveColumn(children) /\ NoColumnTwice(children) =>
             IF EmittedCreates # <<>>
             THEN /\ Len(EmittedCreates) = 1
                  /\ ColumnsOf(EmittedCreates[1]) = FieldNames(DefinitionAdded)
             ELSE FieldNames(DefinitionAdded) = <<>>)
      ]_vars

\* C12 witness: a table without removeColumn children and without a column
\* added twice has ended; one of its addColumn children lacks name or type,
\* and the CREATE TABLE in the output lists the two or more field names of
\* its table definition.
C12_Witness ==
    /\ TableEnded
    /\ NoRemoveColumn(children) /\ NoColumnTwice(children)
    /\ \E i \in 1..Len(children) : children[i].tag = "addColumn" /\ ~WellFormed(children[i])
    /\ dz_table_definitions # <<>>
    /\ LET td == dz_table_definitions[Len(dz_table_definitions)]
       IN  /\ Len(td.columns) >= 2
           /\ \E i \in 1..Len(sql_statements) :
                 /\ sql_statements[i].kind = "CREATE TABLE IF NOT EXISTS"
                 /\ ColumnsOf(sql_statements[i]) = FieldNames(td)

====
